---- MODULE Spec2Model ----
(***************************************************************************)
(* A model of the fill-stitch geometry pipeline of Ink/Stitch:             *)
(*   lib/elements/fill_stitch.py  FillStitch.paths, shape, shape_is_valid, *)
(*                                validation_errors, shrink_or_grow_shape, *)
(*                                to_stitch_groups, do_auto_fill,          *)
(*                                do_legacy_fill                           *)
(*   lib/patterns.py              _apply_stroke_patterns,                  *)
(*                                _apply_fill_patterns, get_angle          *)
(*                                                                         *)
(* Each component has its own specification (SpecShape, SpecDeriver,       *)
(* SpecOrchestrator, SpecStroke, SpecFill) over the same variables.  The   *)
(* variable pc holds the position in the handler that is running; the      *)
(* values of pc are distinct per component, so the actions of one          *)
(* component are never enabled in the states of another.                   *)
(*                                                                         *)
(* Conventions: a point is a pair <<x, y>>; Python's None is None for a    *)
(* point or a list and NoShape for a geometry; areas are kept doubled      *)
(* (Area2) so that the shoelace formula stays in the integers.             *)
(***************************************************************************)
EXTENDS Integers, Sequences, FiniteSets, TLC

VARIABLES
    pc,            \* position in the running handler
    err,           \* the exception that left the handler, "" when none
    \* ---- shape builder (FillStitch.paths / shape / shape_is_valid)
    raw,           \* self.flatten(self.parse_path()): the element's loops
    paths,         \* the list object cached by the paths property
    pathsSet,      \* whether the paths property has been computed
    polygon,       \* shape()'s local variable polygon
    shape,         \* the value cached by the shape property
    loggerLevel,   \* logging.getLogger('shapely.geos').level (process-wide)
    level,         \* shape_is_valid()'s local variable level
    valid,         \* shape_is_valid()'s local variable valid
    caller,        \* who called shape_is_valid: "shape" or "validation_errors"
    geos,          \* what the geometry library answers for the assembled region
    level0,        \* history: the logger's level before the element was processed
    errors,        \* what validation_errors has yielded
    \* ---- shape deriver (shrink_or_grow_shape and its callers)
    expand,               \* the element's expand_mm parameter
    fill_underlay_inset,  \* the element's fill_underlay_inset_mm parameter
    derivations,          \* the shrink_or_grow_shape calls of the last handler
    warnings,             \* what validation_warnings has yielded
    \* ---- stitch-plan orchestrator (to_stitch_groups)
    elem,            \* the element's parameters and commands
    last_patch,      \* the argument of to_stitch_groups
    starting_point,  \* do_auto_fill()'s local variable
    ending_point,    \* do_auto_fill()'s local variable
    i,               \* do_auto_fill()'s loop index (from 1)
    stitch_groups,   \* do_auto_fill()'s local list
    calls,           \* the invocations the routing collaborators have received
    diagnostics,     \* the messages handed to self.fatal
    returned,        \* the list to_stitch_groups returned (when pc = "returned")
    \* ---- pattern overlay engine (_apply_stroke_patterns, _apply_fill_patterns)
    patterns,        \* the argument patterns
    patches,         \* the argument patches: the stitches of each stitch group
    pattern_index,   \* position of the outer loop (from 1)
    patch_index,     \* position of the inner loop (from 1)
    lastStep         \* history: the last iteration, and the stitches it started from

shapeVars == <<raw, paths, pathsSet, polygon, shape, loggerLevel, level, valid,
               caller, geos, level0, errors>>

deriverVars == <<expand, fill_underlay_inset, derivations, warnings>>

planVars == <<elem, last_patch, starting_point, ending_point, i, stitch_groups,
              calls, diagnostics, returned>>

overlayVars == <<patterns, patches, pattern_index, patch_index, lastStep>>

vars == <<pc, err, shapeVars, deriverVars, planVars, overlayVars>>

\* what the actions of one component leave alone
outsideShape == <<deriverVars, planVars, overlayVars>>
outsideDeriver == <<planVars, overlayVars>>
outsidePlan == <<shapeVars, deriverVars, overlayVars>>
outsideOverlay == <<shapeVars, deriverVars, planVars>>

None == <<>>

----------------------------------------------------------------------------
(* Generic helpers *)

Abs(n) == IF n < 0 THEN -n ELSE n

Last(s) == s[Len(s)]

Range(s) == {s[k] : k \in 1..Len(s)}

\* all sequences over S of length lo..hi
SeqsOf(S, lo, hi) == UNION {[1..n -> S] : n \in lo..hi}

\* how many times x occurs in s
Count(s, x) == Cardinality({k \in 1..Len(s) : s[k] = x})

----------------------------------------------------------------------------
(* Shape builder *)

\* bounds of the shape builder's inputs
MaxLoops == 3

\* thresholds of FillStitch.shape
VisibleArea == 5
SmallHoleArea == 3

\* logging.CRITICAL, and the levels the logger may have beforehand
LoggingCRITICAL == 50
LoggerLevels == {0, 30}

\* twice the signed shoelace sum of ring p over its edges k..Len(p)
RECURSIVE Shoelace(_, _)
Shoelace(p, k) ==
    IF k > Len(p) THEN 0
    ELSE LET a == p[k]
             b == p[IF k = Len(p) THEN 1 ELSE k + 1]
         IN  (a[1] * b[2] - b[1] * a[2]) + Shoelace(p, k + 1)

\* shgeo.Polygon(point_list).area, doubled
Area2(p) == Abs(Shoelace(p, 1))

\* shgeo.Polygon(point_list) raises ValueError for fewer than 3 coordinates
PolygonRaises(p) == Len(p) < 3

\* the right triangle (x,y),(x+a,y),(x,y+b)
Tri(x, y, a, b) == <<  <<x, y>>, <<x + a, y>>, <<x, y + b>>  >>

\* the loops flatten(parse_path()) may hand over: loops of 0, 1 and 2 points,
\* and rings of area 1, 3, 4, 5 and 10
LoopSet ==
    { <<>>, << <<2, 1>> >>, << <<1, 1>>, <<3, 2>> >>,
      Tri(0, 0, 1, 2), Tri(0, 0, 2, 3), Tri(0, 0, 2, 4),
      Tri(0, 0, 2, 5), Tri(0, 0, 4, 5) }

\* paths, line 147: the loop synthesized for a loop of fewer than 3 points
\* (path[0] raises IndexError on an empty loop: see paths_raises)
UnitTriangle(path) ==
    << <<path[1][1], path[1][2]>>,
       <<path[1][1] + 1, path[1][2]>>,
       <<path[1][1], path[1][2] + 1>> >>

\* paths, lines 146-147, for one loop
EnsurePathLength(path) ==
    IF Len(path) < 3 THEN UnitTriangle(path) ELSE path

\* paths, lines 146-147: path[0] on a loop without points
paths_raises(ps) == \E k \in 1..Len(ps) : Len(ps[k]) = 0

\* paths, lines 145-148
paths_value(ps) == [k \in 1..Len(ps) |-> EnsurePathLength(ps[k])]

\* list.sort(key=area, reverse=True): stable, descending
RECURSIVE InsertByArea(_, _)
InsertByArea(s, x) ==
    IF s = <<>> THEN <<x>>
    ELSE IF Area2(s[1]) >= Area2(x) THEN <<s[1]>> \o InsertByArea(Tail(s), x)
    ELSE <<x>> \o s

RECURSIVE SortByArea(_)
SortByArea(s) ==
    IF s = <<>> THEN <<>>
    ELSE InsertByArea(SortByArea(SubSeq(s, 1, Len(s) - 1)), s[Len(s)])

\* (mutant) the secondary threshold taken inclusively
KeepLargeLoops_Inclusive(ps) == SelectSeq(ps, LAMBDA p : Area2(p) >= 2 * SmallHoleArea)

\* shape, line 162: the list comprehension
KeepLargeLoops(ps) == SelectSeq(ps, LAMBDA p : Area2(p) > 2 * SmallHoleArea)

\* shape, lines 161-162, on the sorted list
DropSmallHoles(ps) ==
    IF Area2(ps[1]) > 2 * VisibleArea /\ Area2(ps[Len(ps)]) < 2 * VisibleArea
    THEN KeepLargeLoops(ps)
    ELSE ps

NoShape == [kind |-> "None", shell |-> <<>>, holes |-> <<>>, repaired |-> FALSE]

\* shgeo.MultiPolygon([(paths[0], paths[1:])]), line 164
MultiPolygon(ps) ==
    [kind |-> "MultiPolygon", shell |-> ps[1], holes |-> Tail(ps), repaired |-> FALSE]

\* shgeo.MultiPolygon([polygon.buffer(0)]), lines 173 and 178
Buffered0(p) == [p EXCEPT !.repaired = TRUE]

\* the loops a region was assembled from
Loops(p) == IF p.kind = "None" THEN <<>> ELSE <<p.shell>> \o p.holes

\* what explain_validity may answer for an invalid region (the text before "[")
WhyInvalid == {"Self-intersection", "Ring Self-intersection", "Hole lies outside shell"}

\* the library's answers for the assembled region: is_valid, explain_validity,
\* and whether buffer(0) keeps the area (math.isclose)
GeosAnswers ==
    { [valid |-> TRUE, why |-> "Valid Geometry", close |-> TRUE] }
    \cup [valid : {FALSE}, why : {"Self-intersection"}, close : BOOLEAN]
    \cup [valid : {FALSE}, why : WhyInvalid \ {"Self-intersection"}, close : BOOLEAN]

\* shape.is_valid, line 189, for the region being tested
IsValid(p) == p.repaired \/ geos.valid

ShapeIdleExceptShape ==
    /\ raw = <<>> /\ paths = <<>> /\ pathsSet = FALSE
    /\ polygon = NoShape
    /\ loggerLevel = 0 /\ level = 0 /\ valid = FALSE
    /\ caller = "" /\ geos = [valid |-> TRUE, why |-> "Valid Geometry", close |-> TRUE]
    /\ level0 = 0 /\ errors = <<>>

ShapeIdle == ShapeIdleExceptShape /\ shape = NoShape

DeriverIdle ==
    /\ expand = 0 /\ fill_underlay_inset = 0 /\ derivations = <<>> /\ warnings = <<>>

NoGroup == [tags |-> <<>>, stitches |-> <<>>]

NoElement == [auto_fill |-> FALSE, fill_start |-> None, fill_end |-> None,
              fill_underlay |-> FALSE, fill_underlay_angle |-> <<>>, trace |-> FALSE]

PlanIdle ==
    /\ elem = NoElement /\ last_patch = NoGroup
    /\ starting_point = None /\ ending_point = None /\ i = 0
    /\ stitch_groups = <<>> /\ calls = <<>> /\ diagnostics = <<>> /\ returned = <<>>

NoStep == [pattern |-> {}, patch |-> 0, before |-> <<>>]

OverlayIdle ==
    /\ patterns = <<>> /\ patches = <<>> /\ pattern_index = 0 /\ patch_index = 0
    /\ lastStep = NoStep

InitShape ==
    /\ pc = "element"
    /\ DeriverIdle
    /\ PlanIdle
    /\ OverlayIdle
    /\ err = ""
    /\ raw \in SeqsOf(LoopSet, 0, MaxLoops)
    /\ paths = <<>> /\ pathsSet = FALSE
    /\ polygon = NoShape /\ shape = NoShape
    /\ loggerLevel \in LoggerLevels
    /\ level0 = loggerLevel
    /\ level = 0 /\ valid = FALSE /\ caller = ""
    /\ geos \in GeosAnswers
    /\ errors = <<>>

\* FillStitch.paths (cached property), lines 140-148
Paths ==
    /\ pc = "element"
    /\ IF paths_raises(raw)
       THEN /\ pc' = "raised" /\ err' = "IndexError"
            /\ UNCHANGED <<paths, pathsSet>>
       ELSE /\ paths' = paths_value(raw) /\ pathsSet' = TRUE
            /\ pc' = "paths_done" /\ UNCHANGED err
    /\ UNCHANGED <<raw, polygon, shape, loggerLevel, level, valid, caller, geos,
                   level0, errors, outsideShape>>

\* FillStitch.shape, lines 156-169: sort the cached list in place, drop the
\* small holes, assemble the region and call shape_is_valid on it
ShapeAssemble ==
    /\ pc = "paths_done"
    /\ IF \E k \in 1..Len(paths) : PolygonRaises(paths[k])
       THEN /\ pc' = "raised" /\ err' = "ValueError"
            /\ UNCHANGED <<paths, polygon, caller>>
       ELSE /\ paths' = SortByArea(paths)
            /\ IF paths' = <<>>
               THEN /\ pc' = "raised" /\ err' = "IndexError"
                    /\ UNCHANGED <<polygon, caller>>
               ELSE /\ polygon' = MultiPolygon(DropSmallHoles(paths'))
                    /\ caller' = "shape"
                    /\ pc' = "is_valid_enter" /\ UNCHANGED err
    /\ UNCHANGED <<raw, pathsSet, shape, loggerLevel, level, valid, geos, level0, errors,
                   outsideShape>>

\* shape_is_valid, lines 185-187
IsValidEnter ==
    /\ pc = "is_valid_enter"
    /\ level' = loggerLevel
    /\ loggerLevel' = LoggingCRITICAL
    /\ pc' = "is_valid_test"
    /\ UNCHANGED <<err, raw, paths, pathsSet, polygon, shape, valid, caller, geos,
                   level0, errors, outsideShape>>

\* shape_is_valid, line 189: the library answers
IsValidAnswer ==
    /\ pc = "is_valid_test"
    /\ valid' = IsValid(IF caller = "shape" THEN polygon ELSE shape)
    /\ pc' = "is_valid_exit"
    /\ UNCHANGED <<err, raw, paths, pathsSet, polygon, shape, loggerLevel, level,
                   caller, geos, level0, errors, outsideShape>>

\* shape_is_valid, line 189: the library raises, and the exception leaves
\* shape_is_valid and its caller (neither has a handler)
IsValidRaise ==
    /\ pc = "is_valid_test"
    /\ pc' = "raised" /\ err' = "GEOSException"
    /\ UNCHANGED <<shapeVars, outsideShape>>

\* shape_is_valid, lines 191-193
IsValidExit ==
    /\ pc = "is_valid_exit"
    /\ loggerLevel' = level
    /\ pc' = IF caller = "shape" THEN "shape_repair" ELSE "validation_report"
    /\ UNCHANGED <<err, raw, paths, pathsSet, polygon, shape, level, valid, caller,
                   geos, level0, errors, outsideShape>>

\* (mutant) the repair accepted whatever it did to the area
Repaired_IgnoreArea(p) ==
    IF ~valid /\ geos.why = "Self-intersection"
    THEN Buffered0(p)
    ELSE p

\* shape, lines 169-180, the value the property caches
Repaired(p) ==
    IF ~valid /\ geos.why = "Self-intersection" /\ geos.close
    THEN Buffered0(p)
    ELSE p

\* FillStitch.shape, lines 169-180
ShapeRepair ==
    /\ pc = "shape_repair"
    /\ shape' = Repaired(polygon)
    /\ pc' = "shape_done"
    /\ UNCHANGED <<err, raw, paths, pathsSet, polygon, loggerLevel, level, valid,
                   caller, geos, level0, errors, outsideShape>>

\* validation_errors, line 196: call shape_is_valid on the cached shape
ValidationErrors ==
    /\ pc = "shape_done"
    /\ errors = <<>>
    /\ caller' = "validation_errors"
    /\ pc' = "is_valid_enter"
    /\ UNCHANGED <<err, raw, paths, pathsSet, polygon, shape, loggerLevel, level,
                   valid, geos, level0, errors, outsideShape>>

\* validation_errors, lines 196-204
ValidationReport ==
    /\ pc = "validation_report"
    /\ errors' = IF valid THEN <<"none">>
                 ELSE IF geos.why = "Hole lies outside shell"
                      THEN <<"UnconnectedError">>
                      ELSE <<"InvalidShapeError">>
    /\ pc' = "shape_done"
    /\ UNCHANGED <<err, raw, paths, pathsSet, polygon, shape, loggerLevel, level,
                   valid, caller, geos, level0, outsideShape>>

NextShape ==
    \/ Paths
    \/ ShapeAssemble
    \/ IsValidEnter
    \/ IsValidAnswer
    \/ IsValidRaise
    \/ IsValidExit
    \/ ShapeRepair
    \/ ValidationErrors
    \/ ValidationReport

SpecShape == InitShape /\ [][NextShape]_vars

----------------------------------------------------------------------------
(* Shape deriver.  Here the cached region self.shape is described by what    *)
(* buffer() depends on: whether it is empty, and its inradius r (the         *)
(* distance from its boundary to its innermost point; 0 for a region of      *)
(* zero area).  Offsets and inradii are in the same integer unit.            *)

\* bounds of the deriver's inputs
MaxInradius == 3
MaxOffset == 2

\* area below which validation_warnings yields SmallShapeWarning, line 207
SmallShapeArea == 20

Region(kind, empty, r) == [kind |-> kind, empty |-> empty, r |-> r]

\* the regions the shape property may have cached
CachedRegions ==
    {Region("MultiPolygon", TRUE, 0)}
    \cup {Region("MultiPolygon", FALSE, r) : r \in 0..MaxInradius}

\* the geometry types buffer() may return for a region that is not empty
BufferKinds == {"Polygon", "MultiPolygon"}

\* shape.buffer(amount), line 347: nothing is left of an empty region, nor of
\* a region shrunk by its inradius or more; kind is the type the library
\* returns when something is left
Buffer(s, amount, kind) ==
    IF s.empty \/ s.r + amount <= 0
    THEN Region("Polygon", TRUE, 0)
    ELSE Region(kind, FALSE, s.r + amount)

\* shgeo.MultiPolygon([shape]), line 353
AsMultiPolygon(s) == [s EXCEPT !.kind = "MultiPolygon"]

\* the area of a region (a square of inradius r), for line 207
RegionArea(s) == IF s.empty THEN 0 ELSE 4 * s.r * s.r

\* (mutant) the fallback to the original shape taken whatever validate is
shrink_or_grow_shape_AlwaysFallBack(amount, validate, kind) ==
    IF amount # 0
    THEN LET buffered == Buffer(shape, amount, kind)
         IN  IF buffered.empty THEN shape
             ELSE IF buffered.kind # "MultiPolygon" THEN AsMultiPolygon(buffered)
             ELSE buffered
    ELSE shape

\* FillStitch.shrink_or_grow_shape, lines 345-356
shrink_or_grow_shape(amount, validate, kind) ==
    IF amount # 0
    THEN LET buffered == Buffer(shape, amount, kind)
         IN  IF buffered.empty /\ ~validate THEN shape
             ELSE IF buffered.kind # "MultiPolygon" THEN AsMultiPolygon(buffered)
             ELSE buffered
    ELSE shape

\* one call of shrink_or_grow_shape, as its caller sees it
Derivation(amount, validate, kind) ==
    [amount |-> amount, validate |-> validate,
     result |-> shrink_or_grow_shape(amount, validate, kind)]

InitDeriver ==
    /\ pc = "derive"
    /\ err = ""
    /\ ShapeIdleExceptShape
    /\ shape \in CachedRegions
    /\ expand \in -MaxOffset..MaxOffset
    /\ fill_underlay_inset \in -MaxOffset..MaxOffset
    /\ derivations = <<>>
    /\ warnings = <<>>
    /\ PlanIdle
    /\ OverlayIdle

derivedFrame == <<pc, err, raw, paths, pathsSet, polygon, shape, loggerLevel, level,
                  valid, caller, geos, level0, errors, expand, fill_underlay_inset>>

\* FillStitch.underlay_shape, lines 358-360
underlay_shape ==
    /\ pc = "derive"
    /\ \E kind \in BufferKinds :
          derivations' = << Derivation(-fill_underlay_inset, FALSE, kind) >>
    /\ UNCHANGED <<derivedFrame, warnings, outsideDeriver>>

\* FillStitch.fill_shape, lines 362-364
fill_shape ==
    /\ pc = "derive"
    /\ \E kind \in BufferKinds :
          derivations' = << Derivation(expand, FALSE, kind) >>
    /\ UNCHANGED <<derivedFrame, warnings, outsideDeriver>>

\* FillStitch.validation_warnings, lines 206-215
validation_warnings ==
    /\ pc = "derive"
    /\ \E k1 \in BufferKinds, k2 \in BufferKinds :
          LET e == Derivation(expand, TRUE, k1)
              u == Derivation(-fill_underlay_inset, TRUE, k2)
          IN  /\ derivations' = <<e, u>>
              /\ warnings' =
                    (IF RegionArea(shape) < SmallShapeArea
                     THEN <<"SmallShapeWarning">> ELSE <<>>)
                    \o (IF e.result.empty THEN <<"ExpandWarning">> ELSE <<>>)
                    \o (IF u.result.empty THEN <<"UnderlayInsetWarning">> ELSE <<>>)
    /\ UNCHANGED <<derivedFrame, outsideDeriver>>

NextDeriver ==
    \/ underlay_shape
    \/ fill_shape
    \/ validation_warnings

SpecDeriver == InitDeriver /\ [][NextDeriver]_vars

(* Claims about the shape deriver (checked under SpecDeriver) *)

\* the offset leaves nothing of the cached region
BufferEmpties(amount) == shape.empty \/ shape.r + amount <= 0

\* C1: a call of shrink_or_grow_shape with a non-zero amount, positive or
\* negative, whose buffer result is empty returns an empty region when
\* validate is true and the original, unoffset self.shape when it is false.
C1_EmptyOffset ==
    \A k \in 1..Len(derivations) :
        LET c == derivations[k] IN
        (c.amount # 0 /\ BufferEmpties(c.amount)) =>
            /\ c.validate => c.result.empty
            /\ ~c.validate => c.result = shape

\* C1 witness: a region that is not empty, offset without validation by a
\* non-zero amount that empties it, and the original region came back
C1_Witness ==
    /\ ~shape.empty
    /\ \E k \in 1..Len(derivations) :
          /\ derivations[k].amount # 0
          /\ BufferEmpties(derivations[k].amount)
          /\ ~derivations[k].validate
          /\ derivations[k].result = shape

----------------------------------------------------------------------------
(* Stitch-plan orchestrator.  The row-routing collaborators auto_fill and   *)
(* legacy_fill are outside the model: a call of one either returns stitches *)
(* (any of RouteResults) or raises.                                         *)

\* bound of the orchestrator's inputs: the longest underlay angle list
MaxUnderlayAngles == 2

\* the points of the commands and of the preceding stitch group
MarkerStart == <<5, 0>>
MarkerEnd == <<7, 7>>

\* the stitch lists a routing call may return (never empty)
RouteResults ==
    { << <<0, 0>> >>, << <<0, 0>>, <<10, 10>> >>, << <<3, 4>>, <<2, 2>> >> }

\* the lists of stitch lists legacy_fill may return
LegacyResults == SeqsOf(RouteResults, 0, 2)

\* fill_underlay_angle, lines 248-265: a list of at least one angle
UnderlayAngles(n) == [k \in 1..n |-> 45 * k]

\* StitchGroup(color=..., tags=..., stitches=...)
StitchGroup(tags, stitches) == [tags |-> tags, stitches |-> stitches]

UnderlayTags == <<"auto_fill", "auto_fill_underlay">>
TopTags == <<"auto_fill", "auto_fill_top">>

Elements ==
    [auto_fill : BOOLEAN,
     fill_start : {None, MarkerStart},
     fill_end : {None, MarkerEnd},
     fill_underlay : BOOLEAN,
     fill_underlay_angle : {UnderlayAngles(n) : n \in 1..MaxUnderlayAngles},
     trace : BOOLEAN]

\* the stitch groups that may precede the element
PrecedingGroups ==
    {NoGroup} \cup {StitchGroup(<<>>, r) : r \in {<< <<10, 10>> >>, << <<1, 1>>, <<4, 4>> >>}}

\* (mutant) the preceding group taken before the fill_start command
get_starting_point_PatchFirst(patch) ==
    IF patch # NoGroup THEN Last(patch.stitches)
    ELSE IF elem.fill_start # None THEN elem.fill_start
    ELSE None

\* FillStitch.get_starting_point, lines 366-375
get_starting_point(patch) ==
    IF elem.fill_start # None THEN elem.fill_start
    ELSE IF patch # NoGroup THEN Last(patch.stitches)
    ELSE None

\* FillStitch.get_ending_point, lines 377-381
get_ending_point == IF elem.fill_end # None THEN elem.fill_end ELSE None

\* one invocation, as the collaborator receives it: which routine, on which
\* derived shape, at which angle, the starting and ending point it is handed
\* (and whether it is handed one at all), and what it answered
Call(fn, on, angle, passes_start, start, passes_end, end, raised, result) ==
    [fn |-> fn, shape |-> on, angle |-> angle,
     passes_start |-> passes_start, starting_point |-> start,
     passes_end |-> passes_end, ending_point |-> end,
     raised |-> raised, result |-> result]

\* the auto_fill call of lines 412-422
UnderlayCall(raised, result) ==
    Call("auto_fill", "underlay_shape", elem.fill_underlay_angle[i],
         TRUE, starting_point, FALSE, None, raised, result)

\* the auto_fill call of lines 430-441
TopFillCall(raised, result) ==
    Call("auto_fill", "fill_shape", 0,
         TRUE, starting_point, TRUE, ending_point, raised, result)

\* the legacy_fill call of lines 390-397
LegacyCall(raised, result) ==
    Call("legacy_fill", "shape", 0, FALSE, None, FALSE, None, raised, result)

\* (mutant) the running starting point left where it was
AdvanceStartingPoint_Stay(underlay) == starting_point

\* do_auto_fill, line 425
AdvanceStartingPoint(underlay) == Last(underlay.stitches)

\* the message of lines 449-456
FatalMessage == "Error during autofill!"

\* self.fatal (EmbroideryElement.fatal, lib/elements/element.py): it records
\* the diagnostic and aborts the element, it does not return to its caller
fatal(message) == [diagnostics |-> Append(diagnostics, message), returns |-> FALSE]

InitPlan ==
    /\ pc = "to_stitch_groups"
    /\ err = ""
    /\ ShapeIdle /\ DeriverIdle /\ OverlayIdle
    /\ elem \in Elements
    /\ last_patch \in PrecedingGroups
    /\ starting_point = None /\ ending_point = None /\ i = 0
    /\ stitch_groups = <<>> /\ calls = <<>> /\ diagnostics = <<>> /\ returned = <<>>

\* to_stitch_groups, lines 383-387, and do_auto_fill, lines 401-408
to_stitch_groups ==
    /\ pc = "to_stitch_groups"
    /\ IF elem.auto_fill
       THEN /\ stitch_groups' = <<>>
            /\ starting_point' = get_starting_point(last_patch)
            /\ ending_point' = get_ending_point
            /\ i' = 1
            /\ pc' = IF elem.fill_underlay /\ Len(elem.fill_underlay_angle) >= 1
                     THEN "underlay" ELSE "top_fill"
       ELSE /\ pc' = "legacy_fill"
            /\ UNCHANGED <<stitch_groups, starting_point, ending_point, i>>
    /\ UNCHANGED <<err, elem, last_patch, calls, diagnostics, returned, outsidePlan>>

\* do_auto_fill, lines 408-425: one underlay layer, the routing call returning
UnderlayReturns ==
    /\ pc = "underlay"
    /\ \E stitches \in RouteResults :
          LET underlay == StitchGroup(UnderlayTags, stitches) IN
          /\ calls' = Append(calls, UnderlayCall(FALSE, stitches))
          /\ stitch_groups' = Append(stitch_groups, underlay)
          /\ starting_point' = AdvanceStartingPoint(underlay)
    /\ i' = i + 1
    /\ pc' = IF i + 1 <= Len(elem.fill_underlay_angle) THEN "underlay" ELSE "top_fill"
    /\ UNCHANGED <<err, elem, last_patch, ending_point, diagnostics, returned, outsidePlan>>

\* do_auto_fill, lines 412-422: the routing call raising
UnderlayRaises ==
    /\ pc = "underlay"
    /\ calls' = Append(calls, UnderlayCall(TRUE, <<>>))
    /\ pc' = "except"
    /\ UNCHANGED <<err, elem, last_patch, starting_point, ending_point, i, stitch_groups,
                   diagnostics, returned, outsidePlan>>

\* do_auto_fill, lines 427-442: the top fill, the routing call returning
TopFillReturns ==
    /\ pc = "top_fill"
    /\ \E stitches \in RouteResults :
          /\ calls' = Append(calls, TopFillCall(FALSE, stitches))
          /\ stitch_groups' = Append(stitch_groups, StitchGroup(TopTags, stitches))
    /\ pc' = "return"
    /\ UNCHANGED <<err, elem, last_patch, starting_point, ending_point, i, diagnostics,
                   returned, outsidePlan>>

\* do_auto_fill, lines 430-441: the routing call raising
TopFillRaises ==
    /\ pc = "top_fill"
    /\ calls' = Append(calls, TopFillCall(TRUE, <<>>))
    /\ pc' = "except"
    /\ UNCHANGED <<err, elem, last_patch, starting_point, ending_point, i, stitch_groups,
                   diagnostics, returned, outsidePlan>>

\* (mutant) the handler swallowing the exception
HandleException_Swallow ==
    /\ pc = "except"
    /\ pc' = "return"
    /\ UNCHANGED <<err, elem, last_patch, starting_point, ending_point, i, stitch_groups,
                   calls, diagnostics, returned, outsidePlan>>

\* do_auto_fill, lines 443-458: the except clause
HandleException ==
    /\ pc = "except"
    /\ IF elem.trace
       THEN /\ pc' = "raised" /\ err' = "Exception"
            /\ UNCHANGED diagnostics
       ELSE /\ diagnostics' = fatal(FatalMessage).diagnostics
            /\ pc' = IF fatal(FatalMessage).returns THEN "return" ELSE "aborted"
            /\ UNCHANGED err
    /\ UNCHANGED <<elem, last_patch, starting_point, ending_point, i, stitch_groups,
                   calls, returned, outsidePlan>>

\* do_auto_fill, line 460
ReturnStitchGroups ==
    /\ pc = "return"
    /\ returned' = stitch_groups
    /\ pc' = "returned"
    /\ UNCHANGED <<err, elem, last_patch, starting_point, ending_point, i, stitch_groups,
                   calls, diagnostics, outsidePlan>>

\* do_legacy_fill, lines 389-398: legacy_fill returning
LegacyReturns ==
    /\ pc = "legacy_fill"
    /\ \E stitch_lists \in LegacyResults :
          /\ calls' = Append(calls, LegacyCall(FALSE, stitch_lists))
          /\ returned' = [k \in 1..Len(stitch_lists) |-> StitchGroup(<<>>, stitch_lists[k])]
    /\ pc' = "returned"
    /\ UNCHANGED <<err, elem, last_patch, starting_point, ending_point, i, stitch_groups,
                   diagnostics, outsidePlan>>

\* do_legacy_fill, lines 390-397: legacy_fill raising; nothing catches it
LegacyRaises ==
    /\ pc = "legacy_fill"
    /\ calls' = Append(calls, LegacyCall(TRUE, <<>>))
    /\ pc' = "raised" /\ err' = "Exception"
    /\ UNCHANGED <<elem, last_patch, starting_point, ending_point, i, stitch_groups,
                   diagnostics, returned, outsidePlan>>

NextPlan ==
    \/ to_stitch_groups
    \/ UnderlayReturns
    \/ UnderlayRaises
    \/ TopFillReturns
    \/ TopFillRaises
    \/ HandleException
    \/ ReturnStitchGroups
    \/ LegacyReturns
    \/ LegacyRaises

SpecOrchestrator == InitPlan /\ [][NextPlan]_vars

(* Claims about the orchestrator (checked under SpecOrchestrator) *)

\* the starting point an element is due: the fill_start command's target
\* point, else the last stitch of the preceding group, else none
DueStartingPoint ==
    IF elem.fill_start # None THEN elem.fill_start
    ELSE IF last_patch # NoGroup THEN last_patch.stitches[Len(last_patch.stitches)]
    ELSE None

\* the starting point an invocation was handed (none when it is handed none)
HandedStartingPoint(c) == IF c.passes_start THEN c.starting_point ELSE None

\* the number of underlay layers of the element
Layers == IF elem.fill_underlay THEN Len(elem.fill_underlay_angle) ELSE 0

\* C2 as stated: for every element processed by to_stitch_groups, the first
\* routing invocation is handed the starting point the element is due.
C2_Original ==
    Len(calls) >= 1 => HandedStartingPoint(calls[1]) = DueStartingPoint

\* C2 amended: for every auto-fill element processed by to_stitch_groups, the
\* first routing invocation is handed the starting point the element is due
\* (the legacy fill is handed no starting point).
C2_Amended ==
    /\ (elem.auto_fill /\ Len(calls) >= 1) =>
           /\ calls[1].passes_start
           /\ calls[1].starting_point = DueStartingPoint
    /\ (~elem.auto_fill /\ Len(calls) >= 1) => ~calls[1].passes_start

\* C2 witness: an auto-fill element without a start command whose predecessor
\* ends at (10,10) has had its first routing call, which received (10,10)
C2_Witness ==
    /\ elem.auto_fill /\ elem.fill_start = None
    /\ last_patch # NoGroup /\ Last(last_patch.stitches) = <<10, 10>>
    /\ Len(calls) >= 1
    /\ calls[1].starting_point = <<10, 10>>

\* C3: with underlay enabled and n >= 1 angles, the k-th underlay call (k > 1)
\* receives the last stitch of the (k-1)-th underlay group and the top-fill
\* call that of the n-th; the underlay groups are in angle-list order, each
\* before the top-fill group, which is last; only the top-fill call is handed
\* the ending point.
C3_Chaining ==
    (elem.auto_fill /\ elem.fill_underlay) =>
        LET n == Len(elem.fill_underlay_angle) IN
        /\ Len(calls) <= n + 1
        /\ Len(stitch_groups) <= Len(calls)
        /\ \A k \in 1..Len(calls) :
              /\ k <= n =>
                    /\ calls[k].shape = "underlay_shape"
                    /\ calls[k].angle = elem.fill_underlay_angle[k]
                    /\ ~calls[k].passes_end
              /\ k = n + 1 =>
                    /\ calls[k].shape = "fill_shape"
                    /\ calls[k].passes_end
                    /\ calls[k].ending_point = elem.fill_end
              /\ k > 1 =>
                    /\ calls[k].passes_start
                    /\ calls[k].starting_point =
                           stitch_groups[k - 1].stitches[Len(stitch_groups[k - 1].stitches)]
        /\ \A k \in 1..Len(stitch_groups) :
              /\ stitch_groups[k].stitches = calls[k].result
              /\ stitch_groups[k].tags = IF k <= n THEN UnderlayTags ELSE TopTags
        /\ pc = "returned" => (returned = stitch_groups /\ Len(returned) = n + 1)

\* C3 witness: two underlay layers and the top fill have been routed, and the
\* first layer ended somewhere else than where the element was due to start
C3_Witness ==
    /\ elem.auto_fill /\ elem.fill_underlay
    /\ Len(elem.fill_underlay_angle) >= 2
    /\ pc = "returned"
    /\ Last(stitch_groups[1].stitches) # DueStartingPoint
    /\ Last(stitch_groups[2].stitches) # Last(stitch_groups[1].stitches)

\* C4: a list do_auto_fill returns is the complete sequence, one underlay group
\* per underlay angle (when underlay is enabled) and then exactly one top-fill
\* group; when a routing call raised, no list (so no prefix) is returned.
C4_Complete ==
    (elem.auto_fill /\ pc = "returned") =>
        /\ \A k \in 1..Len(calls) : ~calls[k].raised
        /\ Len(returned) = Layers + 1
        /\ \A k \in 1..Len(returned) :
              returned[k].tags = IF k <= Layers THEN UnderlayTags ELSE TopTags

\* C4 witness: the routing call raised after a first group had been built, no
\* trace hook is active, and the element was aborted without returning a list
C4_Witness ==
    /\ elem.auto_fill /\ ~elem.trace
    /\ Len(stitch_groups) >= 1
    /\ \E k \in 1..Len(calls) : calls[k].raised
    /\ pc = "aborted"
    /\ returned = <<>>

\* C5 as stated: with either routing variant, an exception of the routing
\* collaborator never reaches the caller when no trace hook is active, and
\* ends in exactly one fatal diagnostic; with a trace hook it is re-raised.
C5_Claim ==
    (\E k \in 1..Len(calls) : calls[k].raised) =>
        IF elem.trace
        THEN pc \in {"except", "raised"} /\ diagnostics = <<>>
        ELSE /\ pc # "raised"
             /\ pc # "except" => Len(diagnostics) = 1

----------------------------------------------------------------------------
(* Pattern overlay engine, stroke pass.  The stitches lie on the line y = 0 *)
(* and the lines of a stroke pattern are parallel to the axes, with integer *)
(* end points, so that every intersection has integer coordinates.          *)

\* bounds of the overlay's inputs: the longest stitch group, and how many
\* patterns and stitch groups there are
MaxStitches == 3
PatternCounts == 1..2
PatchCounts == 1..2

Min(a, b) == IF a <= b THEN a ELSE b
Max(a, b) == IF a >= b THEN a ELSE b

\* the stitch groups handed to the overlay: stitches at x = 0 and x = 10
StrokeGroups == SeqsOf({<<0, 0>>, <<10, 0>>}, 0, MaxStitches)

\* the lines stroke patterns are made of
VLine(x) == << <<x, -5>>, <<x, 5>> >>
HLine(a, b, y) == << <<a, y>>, <<b, y>> >>

\* the stroke patterns (shgeo.MultiLineString, a set of lines): one crossing
\* line, two crossing lines, a line lying on the stitches, a crossing line
\* with a line lying on the stitches, and a line away from the stitches
StrokePatternSet ==
    { {VLine(5)}, {VLine(2), VLine(5)}, {HLine(0, 5, 0)},
      {VLine(2), HLine(5, 10, 0)}, {HLine(0, 10, 5)} }

\* what the segment first-second (parallel to the x axis) has in common with
\* the line l: the interval [lo, hi] of x, empty when lo > hi
LinePiece(first, second, l) ==
    LET y == first[2]
        xlo == Min(first[1], second[1])
        xhi == Max(first[1], second[1])
    IN  IF l[1][1] = l[2][1]
        THEN \* l is parallel to the y axis
             IF /\ xlo <= l[1][1] /\ l[1][1] <= xhi
                /\ Min(l[1][2], l[2][2]) <= y /\ y <= Max(l[1][2], l[2][2])
             THEN [lo |-> l[1][1], hi |-> l[1][1]]
             ELSE [lo |-> 1, hi |-> 0]
        ELSE \* l is parallel to the x axis
             IF l[1][2] = y
             THEN [lo |-> Max(xlo, Min(l[1][1], l[2][1])),
                   hi |-> Min(xhi, Max(l[1][1], l[2][1]))]
             ELSE [lo |-> 1, hi |-> 0]

\* the elements of a set of integers in increasing order
RECURSIVE Ascending(_)
Ascending(S) ==
    IF S = {} THEN <<>>
    ELSE LET m == CHOOSE x \in S : \A z \in S : x <= z
         IN  <<m>> \o Ascending(S \ {m})

\* shgeo.LineString([first, second]).intersection(pattern), line 91: the type
\* of the geometry the library returns and its points (in coordinate order)
Intersection(first, second, pattern) ==
    LET pieces == {LinePiece(first, second, l) : l \in pattern}
        lines == {q \in pieces : q.lo < q.hi}
        xs == {q.lo : q \in {r \in pieces : r.lo = r.hi}}
        alone == {x \in xs : \A q \in lines : x < q.lo \/ x > q.hi}
        pts == [k \in 1..Cardinality(alone) |-> <<Ascending(alone)[k], first[2]>>]
    IN  [type |-> IF lines # {} /\ alone # {} THEN "GeometryCollection"
                  ELSE IF Cardinality(lines) > 1 THEN "MultiLineString"
                  ELSE IF lines # {} THEN "LineString"
                  ELSE IF Cardinality(alone) > 1 THEN "MultiPoint"
                  ELSE IF alone # {} THEN "Point"
                  ELSE "Empty",
         points |-> pts]

\* point.distance(first), squared
Distance2(p, q) == (p[1] - q[1]) * (p[1] - q[1]) + (p[2] - q[2]) * (p[2] - q[2])

\* points.sort(key=lambda point: point.distance(first)), line 98 (stable)
RECURSIVE InsertByDistance(_, _, _)
InsertByDistance(s, x, first) ==
    IF s = <<>> THEN <<x>>
    ELSE IF Distance2(s[1], first) <= Distance2(x, first)
         THEN <<s[1]>> \o InsertByDistance(Tail(s), x, first)
    ELSE <<x>> \o s

RECURSIVE SortByDistance(_, _)
SortByDistance(s, first) ==
    IF s = <<>> THEN <<>>
    ELSE InsertByDistance(SortByDistance(SubSeq(s, 1, Len(s) - 1), first),
                          s[Len(s)], first)

\* (mutant) the intersection points left in the library's order
get_pattern_points_Unsorted(first, second, pattern) ==
    LET intersection == Intersection(first, second, pattern)
    IN  IF intersection.type \in {"Point", "MultiPoint"}
        THEN intersection.points ELSE <<>>

\* _get_pattern_points, lines 89-99
get_pattern_points(first, second, pattern) ==
    LET intersection == Intersection(first, second, pattern)
        points == IF intersection.type = "Point" THEN <<intersection.points[1]>>
                  ELSE IF intersection.type = "MultiPoint" THEN intersection.points
                  ELSE <<>>
    IN  SortByDistance(points, first)

\* _apply_stroke_patterns, lines 30-37: patch_points from stitch k on
RECURSIVE StrokePatchPoints(_, _, _)
StrokePatchPoints(stitches, pattern, k) ==
    IF k > Len(stitches) THEN <<>>
    ELSE IF k = Len(stitches) THEN <<stitches[k]>>
    ELSE <<stitches[k]>> \o get_pattern_points(stitches[k], stitches[k + 1], pattern)
         \o StrokePatchPoints(stitches, pattern, k + 1)

InitStroke ==
    /\ pc = "stroke_patterns"
    /\ err = ""
    /\ ShapeIdle /\ DeriverIdle /\ PlanIdle
    /\ patterns \in UNION {[1..n -> StrokePatternSet] : n \in PatternCounts}
    /\ patches \in UNION {[1..n -> StrokeGroups] : n \in PatchCounts}
    /\ pattern_index = 1 /\ patch_index = 1
    /\ lastStep = NoStep

\* the loops of lines 28-29 and 42-43 move on to the next patch, or to the
\* first patch and the next pattern
NextPatch ==
    IF patch_index < Len(patches)
    THEN /\ patch_index' = patch_index + 1 /\ UNCHANGED pattern_index
    ELSE /\ patch_index' = 1 /\ pattern_index' = pattern_index + 1

\* _apply_stroke_patterns, lines 28-38: one pattern applied to one patch
ApplyStrokePattern ==
    /\ pc = "stroke_patterns"
    /\ pattern_index <= Len(patterns)
    /\ LET pattern == patterns[pattern_index]
           patch == patches[patch_index]
       IN  /\ patches' = [patches EXCEPT ![patch_index] =
                              StrokePatchPoints(patch, pattern, 1)]
           /\ lastStep' = [pattern |-> pattern, patch |-> patch_index, before |-> patch]
    /\ NextPatch
    /\ UNCHANGED <<pc, err, patterns, outsideOverlay>>

\* _apply_stroke_patterns returns when the patterns are exhausted
StrokePatternsDone ==
    /\ pc = "stroke_patterns"
    /\ pattern_index > Len(patterns)
    /\ pc' = "stroke_done"
    /\ UNCHANGED <<err, overlayVars, outsideOverlay>>

NextStroke ==
    \/ ApplyStrokePattern
    \/ StrokePatternsDone

SpecStroke == InitStroke /\ [][NextStroke]_vars

(* Claims about the stroke pass (checked under SpecStroke) *)

\* the stitches the last iteration started from, and those it left
Before == lastStep.before
After == patches[lastStep.patch]

\* the points with integer coordinates of the segment a-b (parallel to the x axis)
OnSegment(a, b) == {<<x, a[2]>> : x \in Min(a[1], b[1])..Max(a[1], b[1])}

\* the point p lies on the line l (parallel to an axis)
OnLine(p, l) ==
    /\ Min(l[1][1], l[2][1]) <= p[1] /\ p[1] <= Max(l[1][1], l[2][1])
    /\ Min(l[1][2], l[2][2]) <= p[2] /\ p[2] <= Max(l[1][2], l[2][2])

\* what the segment a-b and the pattern have in common
Meet(a, b, pattern) == {p \in OnSegment(a, b) : \E l \in pattern : OnLine(p, l)}

\* the intersection is of point type: it is not empty and no line of the
\* pattern shares more than one point with the segment
PointType(a, b, pattern) ==
    /\ Meet(a, b, pattern) # {}
    /\ \A l \in pattern :
          Cardinality({p \in OnSegment(a, b) : OnLine(p, l)}) <= 1

\* the points due between Before[k] and Before[k+1]
Due(k) ==
    IF PointType(Before[k], Before[k + 1], lastStep.pattern)
    THEN Meet(Before[k], Before[k + 1], lastStep.pattern)
    ELSE {}

\* where Before[k] is due in After
RECURSIVE Place(_)
Place(k) == IF k = 1 THEN 1 ELSE Place(k - 1) + 1 + Cardinality(Due(k - 1))

\* C8: after a stroke pattern was applied to a stitch group, all its original
\* points remain in their order, and between each consecutive pair p_k, p_k+1
\* lie exactly the points of the pair's intersection with the pattern when it
\* is of point type, by increasing distance from p_k, and nothing otherwise.
C8_StrokeInsertion ==
    (lastStep.patch # 0 /\ pc \in {"stroke_patterns", "stroke_done"}) =>
        LET n == Len(Before) IN
        /\ Len(After) = IF n = 0 THEN 0 ELSE Place(n)
        /\ \A k \in 1..n : After[Place(k)] = Before[k]
        /\ \A k \in 1..(n - 1) :
              /\ {After[j] : j \in (Place(k) + 1)..(Place(k + 1) - 1)} = Due(k)
              /\ \A j \in (Place(k) + 1)..(Place(k + 1) - 2) :
                    Distance2(After[j], Before[k]) < Distance2(After[j + 1], Before[k])

\* C8 witness: the segment (0,0)-(10,0) crossed by one vertical stroke at
\* x = 5 has become (0,0),(5,0),(10,0)
C8_Witness ==
    /\ lastStep.patch # 0
    /\ lastStep.pattern = {VLine(5)}
    /\ Before = << <<0, 0>>, <<10, 0>> >>
    /\ After = << <<0, 0>>, <<5, 0>>, <<10, 0>> >>

\* a segment walked from right to left across two strokes
C8_WitnessRightToLeft ==
    /\ lastStep.patch # 0
    /\ Before = << <<10, 0>>, <<0, 0>> >>
    /\ After = << <<10, 0>>, <<5, 0>>, <<2, 0>>, <<0, 0>> >>

----------------------------------------------------------------------------
(* Pattern overlay engine, fill pass.  get_angle is a difference of two     *)
(* atan2 directions.  To keep it exact the stitches of this pass lie on the  *)
(* unit circle: a stitch is its position on the circle, in half degrees     *)
(* (0 <= position < 720).  The chord from position b to position c has the  *)
(* direction (b + c)/2 + 90 degrees when c > b and (b + c)/2 - 90 degrees    *)
(* when c < b, so directions and angles are integers in quarter degrees.    *)
(* A fill pattern is described by the arc of the circle that its interior   *)
(* covers.                                                                  *)

\* n degrees, in quarter degrees
Degrees(n) == 4 * n

\* the bounds of the nearly straight angles, line 55, in degrees
StraightLow == 179
StraightHigh == 181

\* the positions of the stitches: three within one degree of each other, one
\* a further degree on, and two 30 and 60 degrees on
ArcPositions == {0, 1, 2, 4, 60, 120}

\* the stitch groups handed to the overlay: they advance along the circle,
\* in one direction or the other
FillGroups ==
    {s \in SeqsOf(ArcPositions, 0, MaxStitches) :
        \/ \A k \in 1..(Len(s) - 1) : s[k] < s[k + 1]
        \/ \A k \in 1..(Len(s) - 1) : s[k] > s[k + 1]}

Arc(lo, hi) == [lo |-> lo, hi |-> hi]

\* the fill patterns: one covering the four near positions, one covering all
\* positions but the first two, one covering every position
FillPatternSet == {Arc(-1, 5), Arc(1, 130), Arc(-1, 200)}

\* shgeo.Point(stitch).within(pattern), line 47
Within(stitch, pattern) == pattern.lo < stitch /\ stitch < pattern.hi

\* math.degrees(math.atan2(c[1]-b[1], c[0]-b[0])), line 103, in quarter
\* degrees, in (-180, 180] degrees; atan2(0, 0) is 0
atan2(b, c) ==
    IF c = b THEN 0
    ELSE LET direction == b + c + (IF c > b THEN Degrees(90) ELSE -Degrees(90))
         IN  IF direction > Degrees(180) THEN direction - Degrees(360) ELSE direction

\* get_angle, lines 102-104
get_angle(a, b, c) ==
    LET ang == atan2(b, c) - atan2(b, a)
    IN  IF ang < 0 THEN ang + Degrees(360) ELSE ang

\* (mutant) the bounds of the nearly straight angles taken inclusively
NearlyStraight_Inclusive(ang) ==
    Degrees(StraightLow) <= ang /\ ang <= Degrees(StraightHigh)

\* line 55: 179 < angle < 181
NearlyStraight(ang) ==
    Degrees(StraightLow) < ang /\ ang < Degrees(StraightHigh)

\* _apply_fill_patterns, lines 45-56: patch_points from stitch k on
RECURSIVE FillPatchPoints(_, _, _)
FillPatchPoints(stitches, pattern, k) ==
    IF k > Len(stitches) THEN <<>>
    ELSE LET stitch == stitches[k]
             keep == IF ~Within(stitch, pattern) THEN TRUE
                     ELSE IF k - 1 < 1 \/ k >= Len(stitches) THEN TRUE
                     ELSE ~NearlyStraight(get_angle(stitches[k - 1], stitch, stitches[k + 1]))
         IN  (IF keep THEN <<stitch>> ELSE <<>>) \o FillPatchPoints(stitches, pattern, k + 1)

InitFill ==
    /\ pc = "fill_patterns"
    /\ err = ""
    /\ ShapeIdle /\ DeriverIdle /\ PlanIdle
    /\ patterns \in UNION {[1..n -> FillPatternSet] : n \in PatternCounts}
    /\ patches \in UNION {[1..n -> FillGroups] : n \in PatchCounts}
    /\ pattern_index = 1 /\ patch_index = 1
    /\ lastStep = NoStep

\* _apply_fill_patterns, lines 42-57: one pattern applied to one patch
ApplyFillPattern ==
    /\ pc = "fill_patterns"
    /\ pattern_index <= Len(patterns)
    /\ LET pattern == patterns[pattern_index]
           patch == patches[patch_index]
       IN  /\ patches' = [patches EXCEPT ![patch_index] =
                              FillPatchPoints(patch, pattern, 1)]
           /\ lastStep' = [pattern |-> pattern, patch |-> patch_index, before |-> patch]
    /\ NextPatch
    /\ UNCHANGED <<pc, err, patterns, outsideOverlay>>

\* _apply_fill_patterns returns when the patterns are exhausted
FillPatternsDone ==
    /\ pc = "fill_patterns"
    /\ pattern_index > Len(patterns)
    /\ pc' = "fill_done"
    /\ UNCHANGED <<err, overlayVars, outsideOverlay>>

NextFill ==
    \/ ApplyFillPattern
    \/ FillPatternsDone

SpecFill == InitFill /\ [][NextFill]_vars

(* Claims about the fill pass (checked under SpecFill) *)

\* Before[k] is neither the first nor the last point of its group
Interior(k) == 1 < k /\ k < Len(Before)

\* the angle Before[k] forms with its immediate neighbours
AngleAt(k) == get_angle(Before[k - 1], Before[k], Before[k + 1])

\* After holds exactly the points of Before that are not in the set of
\* positions dropped, in their order
Leaves(dropped) ==
    LET kept == (1..Len(Before)) \ dropped
        rank(k) == Cardinality({j \in kept : j <= k})
    IN  /\ Len(After) = Cardinality(kept)
        /\ \A k \in kept : After[rank(k)] = Before[k]

\* C9 as stated: an interior point inside the pattern is dropped if its angle
\* is within [179, 181] degrees, bounds included, and every other point is
\* retained.
C9_Original ==
    (lastStep.patch # 0 /\ pc \in {"fill_patterns", "fill_done"}) =>
        Leaves({k \in 1..Len(Before) :
                   /\ Interior(k)
                   /\ Within(Before[k], lastStep.pattern)
                   /\ Degrees(StraightLow) <= AngleAt(k)
                   /\ AngleAt(k) <= Degrees(StraightHigh)})

\* C9 amended: an interior point inside the pattern is dropped if its angle is
\* strictly between 179 and 181 degrees, and retained if the angle is 179 or
\* less or 181 or more; points outside the pattern and the first and the last
\* point of the group are always retained.
C9_Amended ==
    (lastStep.patch # 0 /\ pc \in {"fill_patterns", "fill_done"}) =>
        Leaves({k \in 1..Len(Before) :
                   /\ Interior(k)
                   /\ Within(Before[k], lastStep.pattern)
                   /\ Degrees(StraightLow) < AngleAt(k)
                   /\ AngleAt(k) < Degrees(StraightHigh)})

\* C9 witness: three points inside the pattern whose middle point has an angle
\* of exactly 179 degrees, and all three are still there
C9_Witness ==
    /\ lastStep.patch # 0 /\ pc \in {"fill_patterns", "fill_done"}
    /\ Len(Before) = 3
    /\ \A k \in 1..3 : Within(Before[k], lastStep.pattern)
    /\ AngleAt(2) = Degrees(StraightLow)
    /\ After = Before

\* three points inside the pattern whose middle point has an angle of 180.5
\* degrees are collapsed to the two end points
C9_WitnessCollapsed ==
    /\ lastStep.patch # 0 /\ pc \in {"fill_patterns", "fill_done"}
    /\ Len(Before) = 3
    /\ \A k \in 1..3 : Within(Before[k], lastStep.pattern)
    /\ 2 * AngleAt(2) = Degrees(361)
    /\ After = <<Before[1], Before[3]>>

\* three points inside the pattern whose middle point has an angle of 150
\* degrees are all retained
C9_WitnessCorner ==
    /\ lastStep.patch # 0 /\ pc \in {"fill_patterns", "fill_done"}
    /\ Len(Before) = 3
    /\ \A k \in 1..3 : Within(Before[k], lastStep.pattern)
    /\ AngleAt(2) = Degrees(150)
    /\ After = Before

----------------------------------------------------------------------------
(* Claims about the shape builder (checked under SpecShape) *)

\* the region has been assembled from the cached loop list
Assembled == polygon.kind = "MultiPolygon"

\* twice the largest and the smallest loop area of the list the builder received
LargestArea2 == CHOOSE a \in {Area2(p) : p \in Range(paths)} :
                    \A p \in Range(paths) : a >= Area2(p)
SmallestArea2 == CHOOSE a \in {Area2(p) : p \in Range(paths)} :
                    \A p \in Range(paths) : a <= Area2(p)

\* the largest loop is visible (area > 5) and the smallest is not (area < 5)
HoleFilterApplies == LargestArea2 > 2 * VisibleArea /\ SmallestArea2 < 2 * VisibleArea

\* C6 as stated: when the largest loop's area is > 5 and the smallest's is < 5,
\* exactly the loops of area below 3 are absent from the built region and every
\* loop of area >= 3 is retained; otherwise no loop is discarded.
C6_Original ==
    Assembled =>
        /\ Range(Loops(polygon)) \subseteq Range(paths)
        /\ \A l \in Range(paths) :
               Count(Loops(polygon), l) =
                   IF HoleFilterApplies /\ Area2(l) < 2 * SmallHoleArea
                   THEN 0 ELSE Count(paths, l)

\* C6 amended: when the largest loop's area is > 5 and the smallest's is < 5,
\* exactly the loops of area at most 3 are absent from the built region and
\* every loop of area above 3 is retained; otherwise no loop is discarded.
C6_Amended ==
    Assembled =>
        /\ Range(Loops(polygon)) \subseteq Range(paths)
        /\ \A l \in Range(paths) :
               Count(Loops(polygon), l) =
                   IF HoleFilterApplies /\ Area2(l) <= 2 * SmallHoleArea
                   THEN 0 ELSE Count(paths, l)

\* C6 witness: a region built from a loop of area 10, a loop of area exactly 3
\* (dropped) and a loop of area 4 (kept)
C6_Witness ==
    /\ Assembled
    /\ HoleFilterApplies
    /\ \E l \in Range(paths) : Area2(l) = 2 * SmallHoleArea /\ Count(Loops(polygon), l) = 0
    /\ \E l \in Range(paths) : Area2(l) = 8 /\ Count(Loops(polygon), l) = 1

\* C7 as stated: once the paths property has been asked for, it has not failed,
\* every loop of fewer than 3 points (0, 1 or 2) has been replaced by the
\* triangle (x,y),(x+1,y),(x,y+1) at its first point, of positive area, every
\* other loop is unchanged, and no cached loop has fewer than 3 points.
C7_Claim ==
    pc # "element" =>
        /\ pathsSet
        /\ \A k \in 1..Len(paths) : Len(paths[k]) >= 3
        /\ pc = "paths_done" =>
              /\ Len(paths) = Len(raw)
              /\ \A k \in 1..Len(raw) :
                    IF Len(raw[k]) < 3
                    THEN /\ paths[k] = << raw[k][1],
                                          <<raw[k][1][1] + 1, raw[k][1][2]>>,
                                          <<raw[k][1][1], raw[k][1][2] + 1>> >>
                         /\ Area2(paths[k]) > 0
                    ELSE paths[k] = raw[k]

\* C10 as stated: outside shape_is_valid, on its normal return and when the
\* validity test raised alike, the geometry logger has the level it had before.
C10_Claim ==
    pc \notin {"is_valid_test", "is_valid_exit"} => loggerLevel = level0

\* the shape property has returned and its value is cached
ShapeBuilt == shape.kind = "MultiPolygon"

\* the assembled region is invalid because of a self-intersection and its
\* zero-buffer repair has an area close to the assembled region's
RepairAccepted == ~geos.valid /\ geos.why = "Self-intersection" /\ geos.close

\* C11: the zero-buffer repaired region replaces the assembled region if and
\* only if the assembled region is invalid, the reason is self-intersection and
\* the repaired area is close to the original area; in every other case the
\* assembled region is returned unchanged, still invalid if it was invalid.
C11_Repair ==
    ShapeBuilt =>
        /\ (shape = Buffered0(polygon) /\ shape # polygon) <=> RepairAccepted
        /\ ~RepairAccepted => (shape = polygon /\ IsValid(shape) = geos.valid)

\* C11 witness: a self-intersecting region whose repair kept the area has been
\* replaced by the repaired region
C11_Witness ==
    /\ pc = "shape_done"
    /\ RepairAccepted
    /\ shape = Buffered0(polygon) /\ shape # polygon

\* a self-intersecting region whose repair changed the area is returned as
\* assembled, still invalid
C11_WitnessAreaChanged ==
    /\ pc = "shape_done"
    /\ ~geos.valid /\ geos.why = "Self-intersection" /\ ~geos.close
    /\ shape = polygon /\ ~IsValid(shape)

\* a region invalid for another reason is returned as assembled, still
\* invalid, even though a repair would have kept the area
C11_WitnessOtherReason ==
    /\ pc = "shape_done"
    /\ ~geos.valid /\ geos.why # "Self-intersection" /\ geos.close
    /\ shape = polygon /\ ~IsValid(shape)

\* C12 as stated: the cached loop list of paths holds the loops the paths
\* property returned, in the same order, whether or not shape has been
\* computed since.
C12_Claim ==
    pathsSet => paths = paths_value(raw)

\* the region was built from a loop list that was not sorted by descending
\* area, and the cached loop list is now in another order
C12_Reordered ==
    /\ ShapeBuilt
    /\ paths_value(raw) # SortByArea(paths_value(raw))
    /\ paths # paths_value(raw)
    /\ \A l \in Range(paths) : Count(paths, l) = Count(paths_value(raw), l)

====
